---------------------------- MODULE Spec2Model ----------------------------
(***************************************************************************)
(* Model of the zbase32 codec (src/src/lib.rs): the digit table, decode,   *)
(* encode, the full-byte wrappers and validate.                            *)
(*                                                                         *)
(* Byte strings and zbase32 strings are sequences of byte values 0..255.   *)
(* The loops of decode and encode are modelled one iteration per step, on  *)
(* records holding the local variables of the Rust functions; the same     *)
(* iteration operators are folded into the operators decode and encode,    *)
(* which give the value a whole call returns.                              *)
(*                                                                         *)
(* Arithmetic on u8 and u16 keeps its width.  An operation that leaves the *)
(* width (overflow, underflow, a shift by the full width or more) sets     *)
(* the flag "fault" and the call ends in a panic, which is what a build    *)
(* with overflow checks and debug assertions does (the build the tests     *)
(* run in).  The u64 values (bits, bits_remaining, lengths times 5 or 8)   *)
(* stay far below 2^64 within the bounds and are plain naturals.           *)
(***************************************************************************)
EXTENDS Integers, Sequences, FiniteSets, TLC

VARIABLES pc, fn, arg, bits, loc, ret

vars == <<pc, fn, arg, bits, loc, ret>>

(***************************************************************************)
(* Bounds of the model.                                                    *)
(***************************************************************************)
\* longest byte string enumerated exhaustively over ByteVals
MaxBytes == 4
\* longest zbase32 string enumerated exhaustively over SymVals
MaxSyms == 4
\* how far beyond the length of the input the requested bit length may go
ExtraBits == 2

\* byte values of the exhaustively enumerated data: 0x00, 0x80, 0xa5, 0xff
ByteVals == {0, 128, 165, 255}
\* byte values of the exhaustively enumerated zbase32 strings:
\* 'y' (0), 'o' (16), '9' (31) and the non-digits 'A', ' '
SymVals == {121, 111, 57, 65, 32}

SeqsUpTo(S, n) == UNION {[1..k -> S] : k \in 0..n}

(***************************************************************************)
(* Option and Result values.                                               *)
(***************************************************************************)
None == <<>>
Some(v) == <<v>>

Ok(v) == [tag |-> "Ok", val |-> v]
Err(e) == [tag |-> "Err", val |-> <<>>, msg |-> e]
Panic(m) == [tag |-> "Panic", val |-> <<>>, msg |-> m]
NoRet == [tag |-> "None", val |-> <<>>]

(***************************************************************************)
(* Fixed-width arithmetic.                                                 *)
(***************************************************************************)
Pow2(n) == 2 ^ n
U8 == 256
U16 == 65536
\* x is not a value of an unsigned integer of modulus m
Leaves(x, m) == x < 0 \/ x >= m
\* u16 << n and u16 >> n; the shift amount is taken modulo 16 when it leaves 0..15
ShlU16(x, n) == (x * Pow2(n % 16)) % U16
ShrU16(x, n) == x \div Pow2(n % 16)

(***************************************************************************)
(* The alphabet and the digit table.                                       *)
(***************************************************************************)
\* b"ybndrfg8ejkmcpqxot1uwisza345h769"; ALPHABET[i + 1] is the source's ALPHABET[i]
ALPHABET ==
    << 121, 98, 110, 100, 114, 102, 103, 56, 101, 106, 107, 109, 99, 112, 113, 120,
       111, 116, 49, 117, 119, 105, 115, 122, 97, 51, 52, 53, 104, 55, 54, 57 >>

\* CONVERSION_TABLE[b + 1] is the source's CONVERSION_TABLE[b]
CONVERSION_TABLE == <<
    (*   0 *) None    , None    , None    , None    , None,
    (*   5 *) None    , None    , None    , None    , None,
    (*  10 *) None    , None    , None    , None    , None,
    (*  15 *) None    , None    , None    , None    , None,
    (*  20 *) None    , None    , None    , None    , None,
    (*  25 *) None    , None    , None    , None    , None,
    (*  30 *) None    , None    , None    , None    , None,
    (*  35 *) None    , None    , None    , None    , None,
    (*  40 *) None    , None    , None    , None    , None,
    (*  45 *) None    , None    , None    , None    , Some(18),
    (*  50 *) None    , Some(25), Some(26), Some(27), Some(30),
    (*  55 *) Some(29), Some(7) , Some(31), None    , None,
    (*  60 *) None    , None    , None    , None    , None,
    (*  65 *) None    , None    , None    , None    , None,
    (*  70 *) None    , None    , None    , None    , None,
    (*  75 *) None    , None    , None    , None    , None,
    (*  80 *) None    , None    , None    , None    , None,
    (*  85 *) None    , None    , None    , None    , None,
    (*  90 *) None    , None    , None    , None    , None,
    (*  95 *) None    , None    , Some(24), Some(1) , Some(12),
    (* 100 *) Some(3) , Some(8) , Some(5) , Some(6) , Some(28),
    (* 105 *) Some(21), Some(9) , Some(10), None    , Some(11),
    (* 110 *) Some(2) , Some(16), Some(13), Some(14), Some(4),
    (* 115 *) Some(22), Some(17), Some(19), None    , Some(20),
    (* 120 *) Some(15), Some(0) , Some(23), None    , None,
    (* 125 *) None    , None    , None    , None    , None,
    (* 130 *) None    , None    , None    , None    , None,
    (* 135 *) None    , None    , None    , None    , None,
    (* 140 *) None    , None    , None    , None    , None,
    (* 145 *) None    , None    , None    , None    , None,
    (* 150 *) None    , None    , None    , None    , None,
    (* 155 *) None    , None    , None    , None    , None,
    (* 160 *) None    , None    , None    , None    , None,
    (* 165 *) None    , None    , None    , None    , None,
    (* 170 *) None    , None    , None    , None    , None,
    (* 175 *) None    , None    , None    , None    , None,
    (* 180 *) None    , None    , None    , None    , None,
    (* 185 *) None    , None    , None    , None    , None,
    (* 190 *) None    , None    , None    , None    , None,
    (* 195 *) None    , None    , None    , None    , None,
    (* 200 *) None    , None    , None    , None    , None,
    (* 205 *) None    , None    , None    , None    , None,
    (* 210 *) None    , None    , None    , None    , None,
    (* 215 *) None    , None    , None    , None    , None,
    (* 220 *) None    , None    , None    , None    , None,
    (* 225 *) None    , None    , None    , None    , None,
    (* 230 *) None    , None    , None    , None    , None,
    (* 235 *) None    , None    , None    , None    , None,
    (* 240 *) None    , None    , None    , None    , None,
    (* 245 *) None    , None    , None    , None    , None,
    (* 250 *) None    , None    , None    , None    , None,
    (* 255 *) None
>>

\* mutant: letters are looked up without regard to case
value_of_digit_any_case(digit) ==
    LET lower == IF digit \in 65..90 THEN digit + 32 ELSE digit
        e == CONVERSION_TABLE[lower + 1]
    IN  IF e # None THEN Ok(e[1]) ELSE Err("not a zbase32 digit")

\* mutant: the table is indexed one entry too low
value_of_digit_off_by_one(digit) ==
    LET e == CONVERSION_TABLE[IF digit = 0 THEN 1 ELSE digit]
    IN  IF e # None THEN Ok(e[1]) ELSE Err("not a zbase32 digit")

value_of_digit(digit) ==
    LET e == CONVERSION_TABLE[digit + 1]
    IN  IF e # None THEN Ok(e[1]) ELSE Err("not a zbase32 digit")

(***************************************************************************)
(* decode                                                                  *)
(***************************************************************************)
\* mutant: the capacity is rounded down
DecodeCapacityRoundDown(n) == n \div 8

\* `capacity` of decode: the number of bytes that hold `n` bits
DecodeCapacity(n) == IF n % 8 = 0 THEN n \div 8 ELSE n \div 8 + 1

\* assert!(zbase32.len() as u64 * 5 >= bits)
DecodeAssert(zbase32, n) == Len(zbase32) * 5 >= n

\* the locals of decode before the loop; `rest` is what the iterator has not yielded
DecodeInit(zbase32, n) ==
    [ capacity       |-> DecodeCapacity(n),
      result         |-> <<>>,
      bits_remaining |-> n,
      buffer_size    |-> 0,
      buffer         |-> U16 - 1,
      rest           |-> zbase32,
      ctl            |-> "loop",
      fault          |-> FALSE ]

\* if buffer_size >= 8 { push; bits_remaining -= 8; buffer_size -= 8 }
DecodeEmit(st) ==
    IF st.buffer_size >= 8
    THEN LET byte == ShrU16(st.buffer, st.buffer_size - 8) % U8
         IN  [st EXCEPT !.result = Append(st.result, byte),
                        !.bits_remaining = IF st.bits_remaining >= 8
                                           THEN st.bits_remaining - 8
                                           ELSE 0,
                        !.buffer_size = st.buffer_size - 8,
                        !.fault = st.fault \/ st.bits_remaining < 8]
    ELSE st

\* mutant: the loop breaks only once the buffer holds more bits than wanted
DecodeBreakStrict(st) == st.bits_remaining < 8 /\ st.buffer_size > st.bits_remaining

\* if bits_remaining < 8 && u64::from(buffer_size) >= bits_remaining { break }
DecodeBreak(st) == st.bits_remaining < 8 /\ st.buffer_size >= st.bits_remaining

\* mutant: the break test is made before the digit is looked up
DecodeBodyBreakFirst(st) ==
    IF DecodeBreak(st)
    THEN [st EXCEPT !.ctl = "break"]
    ELSE LET value == value_of_digit(Head(st.rest))
         IN  IF value.tag = "Err"
             THEN [st EXCEPT !.ctl = "err", !.rest = Tail(st.rest)]
             ELSE LET size == st.buffer_size + 5
                  IN  DecodeEmit([st EXCEPT !.rest = Tail(st.rest),
                                            !.buffer = ShlU16(st.buffer, 5) + value.val,
                                            !.buffer_size = size % U8,
                                            !.fault = st.fault \/ Leaves(size, U8)])

\* one iteration of `for digit in zbase32`
DecodeBody(st) ==
    LET digit == Head(st.rest)
        value == value_of_digit(digit)
    IN  IF value.tag = "Err"
        THEN [st EXCEPT !.ctl = "err", !.rest = Tail(st.rest)]
        ELSE LET size == st.buffer_size + 5
                 s1 == [st EXCEPT !.rest = Tail(st.rest),
                                  !.buffer = ShlU16(st.buffer, 5) + value.val,
                                  !.buffer_size = size % U8,
                                  !.fault = st.fault \/ Leaves(size, U8)]
             IN  IF DecodeBreak(s1)
                 THEN [s1 EXCEPT !.ctl = "break"]
                 ELSE DecodeEmit(s1)

\* mutant: the loop also ends once no bit is wanted any more
DecodeLoopingWhileWanted(st) ==
    st.ctl = "loop" /\ st.rest # <<>> /\ ~st.fault /\ st.bits_remaining > 0

\* the loop runs on while the iterator yields and nothing ended it
DecodeLooping(st) == st.ctl = "loop" /\ st.rest # <<>> /\ ~st.fault

\* mutant: the surplus low-order bits of the last digit are not trimmed
DecodeTailNoTrim(st) ==
    IF st.bits_remaining > 0
    THEN LET shift == 8 - st.buffer_size
             byte == ShlU16(st.buffer, shift % U8) % U8
         IN  [st EXCEPT !.result = Append(st.result, byte),
                        !.fault = st.fault \/ Leaves(shift, U8) \/ shift % U8 >= 16]
    ELSE st

\* if bits_remaining > 0 { trim the buffer and push the last byte }
DecodeTail(st) ==
    IF st.bits_remaining > 0
    THEN LET want == st.bits_remaining % U8
             trim_right == st.buffer_size - want
             trimmed == ShrU16(st.buffer, trim_right % U8)
             size == st.buffer_size - (trim_right % U8)
             shift == 8 - (size % U8)
             byte == ShlU16(trimmed, shift % U8) % U8
         IN  [st EXCEPT !.result = Append(st.result, byte),
                        !.buffer = trimmed,
                        !.buffer_size = size % U8,
                        !.fault = \/ st.fault
                                  \/ Leaves(trim_right, U8) \/ trim_right % U8 >= 16
                                  \/ Leaves(size, U8)
                                  \/ Leaves(shift, U8) \/ shift % U8 >= 16]
    ELSE st

\* what decode returns once the loop is over
DecodeReturn(st) ==
    IF st.ctl = "err" THEN Err("not a zbase32 digit")
    ELSE IF st.fault THEN Panic("arithmetic overflow")
    ELSE LET t == DecodeTail(st)
         IN  IF t.fault THEN Panic("arithmetic overflow")
             ELSE IF t.capacity # Len(t.result) THEN Panic("assertion failed")
             ELSE Ok(t.result)

RECURSIVE DecodeLoop(_)
DecodeLoop(st) == IF DecodeLooping(st) THEN DecodeLoop(DecodeBody(st)) ELSE st

decode(zbase32, n) ==
    IF ~DecodeAssert(zbase32, n)
    THEN Panic("zbase32 slice too short")
    ELSE DecodeReturn(DecodeLoop(DecodeInit(zbase32, n)))

\* mutant: the bit length is rounded up to the next byte boundary
FullBytesBitsRoundUp(zbase) == ((Len(zbase) * 5 + 7) \div 8) * 8

\* mutant: the bit length is not rounded at all
FullBytesBitsExact(zbase) == Len(zbase) * 5

\* the bit length decode_full_bytes asks for
FullBytesBits(zbase) == ((Len(zbase) * 5) \div 8) * 8

decode_full_bytes(zbase) == decode(zbase, FullBytesBits(zbase))

decode_str(zbase32, n) == decode(zbase32, n)

decode_full_bytes_str(zbase32) == decode_full_bytes(zbase32)

(***************************************************************************)
(* encode                                                                  *)
(***************************************************************************)
\* `capacity` of encode: the number of symbols that hold `n` bits
EncodeCapacity(n) == IF n % 5 = 0 THEN n \div 5 ELSE n \div 5 + 1

\* mutant: the assertion asks for strictly more input than bits
EncodeAssertStrict(data, n) == Len(data) * 8 > n

\* assert!(data.len() as u64 * 8 >= bits)
EncodeAssert(data, n) == Len(data) * 8 >= n

\* the locals of encode before the loop
EncodeInit(data, n) ==
    [ capacity       |-> EncodeCapacity(n),
      result         |-> <<>>,
      bits_remaining |-> n,
      bit_offset     |-> 16,
      remaining      |-> data,
      buffer         |-> U16 - 1,
      fault          |-> FALSE ]

\* if bit_offset >= 8 { if let Some((first, others)) = remaining.split_first() { .. } }
EncodeRefill(st) ==
    IF st.bit_offset >= 8 /\ st.remaining # <<>>
    THEN [st EXCEPT !.buffer = ShlU16(st.buffer, 8) + Head(st.remaining),
                    !.remaining = Tail(st.remaining),
                    !.bit_offset = st.bit_offset - 8]
    ELSE st

\* mutant: a plain subtraction in place of the saturating one
UnusedBitsPlain(bits_remaining) == 5 - bits_remaining

\* 5_u64.saturating_sub(bits_remaining)
UnusedBits(bits_remaining) == IF bits_remaining >= 5 THEN 0 ELSE 5 - bits_remaining

\* mutant: the shift does not drop the bits beyond the requested length
EncodeShiftKeepsSurplus(unused_bits, bit_offset) == 16 - 5 - bit_offset

\* unused_bits as u8 + 16 - 5 - bit_offset
EncodeShift(unused_bits, bit_offset) == (unused_bits % U8) + 16 - 5 - bit_offset

\* mutant: the last group is not moved back to the high end of the symbol
EncodeIndexRightAligned(buffer, shift, unused_bits) == ShrU16(buffer, shift) % 32

\* (buffer >> shift << unused_bits) & 0x1f
EncodeIndex(buffer, shift, unused_bits) ==
    ShlU16(ShrU16(buffer, shift), unused_bits) % 32

\* one iteration of `while bits_remaining > 0`
EncodeBody(st) ==
    LET s1 == EncodeRefill(st)
        unused_bits == UnusedBits(s1.bits_remaining)
        shift == EncodeShift(unused_bits, s1.bit_offset)
        index == EncodeIndex(s1.buffer, shift % U8, unused_bits)
        offset == s1.bit_offset + 5
    IN  [s1 EXCEPT !.result = Append(s1.result, ALPHABET[index + 1]),
                   !.bit_offset = offset % U8,
                   !.bits_remaining = s1.bits_remaining - (5 - unused_bits),
                   !.fault = \/ s1.fault
                             \/ Leaves(shift, U8) \/ shift % U8 >= 16
                             \/ Leaves(offset, U8)]

EncodeLooping(st) == st.bits_remaining > 0 /\ ~st.fault

\* what encode returns once the loop is over
EncodeReturn(st) ==
    IF st.fault THEN Panic("arithmetic overflow")
    ELSE IF st.capacity # Len(st.result) THEN Panic("assertion failed")
    ELSE Ok(st.result)

RECURSIVE EncodeLoop(_)
EncodeLoop(st) == IF EncodeLooping(st) THEN EncodeLoop(EncodeBody(st)) ELSE st

encode(data, n) ==
    IF ~EncodeAssert(data, n)
    THEN Panic("slice too short")
    ELSE EncodeReturn(EncodeLoop(EncodeInit(data, n)))

encode_full_bytes(data) == encode(data, Len(data) * 8)

(***************************************************************************)
(* validate                                                                *)
(***************************************************************************)
validate(data) == \A i \in 1..Len(data) : value_of_digit(data[i]).tag = "Ok"

validate_str(data) == validate(data)

(***************************************************************************)
(* The inputs of the calls: every string over a few byte values up to a    *)
(* bound, and the literal vectors of the unit tests (<<bits, zbase32,      *)
(* data>>), which bring longer strings over the whole alphabet.            *)
(***************************************************************************)
TEST_DATA ==
    { <<0, <<>>,
        <<>>>>,
      <<1, <<121>>,
        <<0>>>>,
      <<1, <<111>>,
        <<128>>>>,
      <<2, <<101>>,
        <<64>>>>,
      <<2, <<97>>,
        <<192>>>>,
      <<8, <<121, 121>>,
        <<0>>>>,
      <<10, <<121, 121>>,
        <<0, 0>>>>,
      <<10, <<111, 110>>,
        <<128, 128>>>>,
      <<20, <<116, 113, 114, 101>>,
        <<139, 136, 128>>>>,
      <<24, <<54, 110, 57, 104, 113>>,
        <<240, 191, 199>>>>,
      <<24, <<52, 116, 55, 121, 101>>,
        <<212, 122, 4>>>>,
      <<30, <<54, 105, 109, 53, 115, 100>>,
        <<245, 87, 187, 12>>>>,
      <<160, <<121, 98, 110, 100, 114, 102, 103, 56, 101, 106, 107, 109, 99, 112, 113, 120, 111, 116, 49, 117, 119, 105, 115, 122, 97, 51, 52, 53, 104, 55, 54, 57>>,
        <<0, 68, 50, 20, 199, 66, 84, 182, 53, 207, 132, 101, 58, 86, 215, 198, 117, 190, 119, 223>>>> }

\* "ybndrfg8ejkmcpqxot1uwisza345H769", "bn\u2115e" (UTF-8), "uv", "l"
INVALID_TEST_DATA ==
    { <<121, 98, 110, 100, 114, 102, 103, 56, 101, 106, 107, 109, 99, 112, 113, 120, 111, 116, 49, 117, 119, 105, 115, 122, 97, 51, 52, 53, 72, 55, 54, 57>>,
      <<98, 110, 226, 132, 149, 101>>,
      <<117, 118>>,
      <<108>> }

\* test_decode_superfluous_bits
SUPERFLUOUS_DECODE ==
    { <<1, <<57, 57, 57>>, <<128>>>>,
      <<24, <<52, 116, 55, 121, 106>>, <<212, 122, 4>>>>,
      <<25, <<52, 116, 55, 121, 101, 57>>, <<212, 122, 4, 0>>>>,
      <<18, <<103, 121, 104, 51>>, <<48, 57, 128>>>> }

\* test_encode_superfluous_bits
SUPERFLUOUS_ENCODE ==
    { <<1, <<111>>, <<255, 255>>>>,
      <<24, <<52, 116, 55, 121, 101>>, <<212, 122, 4, 255>>>> }

\* test_decode_short_slice (b"oyoy"), test_encode_short_slice (b"1234"), doc tests
SHORT_DECODE == <<111, 121, 111, 121>>
SHORT_ENCODE == <<49, 50, 51, 52>>
DOC_DECODE == <<113, 98, 49, 122, 101, 51, 109, 49>>

EncodeInputs ==
    SeqsUpTo(ByteVals, MaxBytes)
        \cup {t[3] : t \in TEST_DATA \cup SUPERFLUOUS_ENCODE \cup SUPERFLUOUS_DECODE}
        \cup {SHORT_ENCODE}

DecodeInputs ==
    SeqsUpTo(SymVals, MaxSyms)
        \cup {t[2] : t \in TEST_DATA \cup SUPERFLUOUS_DECODE \cup SUPERFLUOUS_ENCODE}
        \cup INVALID_TEST_DATA \cup {SHORT_DECODE, DOC_DECODE}

(***************************************************************************)
(* The state: pc is the position of the one call in progress, fn the       *)
(* public function called, arg and bits its arguments, loc the locals of   *)
(* the running loop, ret what the call returned.                           *)
(***************************************************************************)
Init ==
    /\ pc = "idle"
    /\ fn = ""
    /\ arg = <<>>
    /\ bits = 0
    /\ loc = <<>>
    /\ ret = NoRet

\* entry of encode: the assertion, then the locals
EnterEncode(f, data, n) ==
    /\ fn' = f
    /\ arg' = data
    /\ bits' = n
    /\ IF EncodeAssert(data, n)
       THEN pc' = "encode_loop" /\ loc' = EncodeInit(data, n) /\ ret' = NoRet
       ELSE pc' = "done" /\ loc' = <<>> /\ ret' = Panic("slice too short")

CallEncode ==
    /\ pc = "idle"
    /\ \E data \in EncodeInputs :
        \E n \in 0..(Len(data) * 8 + ExtraBits) : EnterEncode("encode", data, n)

CallEncodeFullBytes ==
    /\ pc = "idle"
    /\ \E data \in EncodeInputs : EnterEncode("encode_full_bytes", data, Len(data) * 8)

EncodeStep ==
    /\ pc = "encode_loop"
    /\ EncodeLooping(loc)
    /\ loc' = EncodeBody(loc)
    /\ UNCHANGED <<pc, fn, arg, bits, ret>>

EncodeDone ==
    /\ pc = "encode_loop"
    /\ ~EncodeLooping(loc)
    /\ ret' = EncodeReturn(loc)
    /\ pc' = "done"
    /\ UNCHANGED <<fn, arg, bits, loc>>

\* entry of decode: the assertion, then the locals
EnterDecode(f, zbase32, n) ==
    /\ fn' = f
    /\ arg' = zbase32
    /\ bits' = n
    /\ IF DecodeAssert(zbase32, n)
       THEN pc' = "decode_loop" /\ loc' = DecodeInit(zbase32, n) /\ ret' = NoRet
       ELSE pc' = "done" /\ loc' = <<>> /\ ret' = Panic("zbase32 slice too short")

CallDecode ==
    /\ pc = "idle"
    /\ \E zbase32 \in DecodeInputs :
        \E n \in 0..(Len(zbase32) * 5 + ExtraBits) : EnterDecode("decode", zbase32, n)

CallDecodeFullBytes ==
    /\ pc = "idle"
    /\ \E zbase \in DecodeInputs :
        EnterDecode("decode_full_bytes", zbase, FullBytesBits(zbase))

DecodeStep ==
    /\ pc = "decode_loop"
    /\ DecodeLooping(loc)
    /\ loc' = DecodeBody(loc)
    /\ UNCHANGED <<pc, fn, arg, bits, ret>>

DecodeDone ==
    /\ pc = "decode_loop"
    /\ ~DecodeLooping(loc)
    /\ ret' = DecodeReturn(loc)
    /\ loc' = IF loc.ctl = "err" \/ loc.fault THEN loc ELSE DecodeTail(loc)
    /\ pc' = "done"
    /\ UNCHANGED <<fn, arg, bits>>

CallValidate ==
    /\ pc = "idle"
    /\ \E data \in DecodeInputs :
        /\ fn' = "validate"
        /\ arg' = data
        /\ ret' = Ok(validate(data))
        /\ pc' = "done"
        /\ UNCHANGED <<bits, loc>>

CallValueOfDigit ==
    /\ pc = "idle"
    /\ \E digit \in 0..255 :
        /\ fn' = "value_of_digit"
        /\ arg' = <<digit>>
        /\ ret' = value_of_digit(digit)
        /\ pc' = "done"
        /\ UNCHANGED <<bits, loc>>

Next ==
    \/ CallEncode
    \/ CallEncodeFullBytes
    \/ EncodeStep
    \/ EncodeDone
    \/ CallDecode
    \/ CallDecodeFullBytes
    \/ DecodeStep
    \/ DecodeDone
    \/ CallValidate
    \/ CallValueOfDigit

Spec == Init /\ [][Next]_vars

(***************************************************************************)
(* Reference definitions for the properties: bit streams read most         *)
(* significant bit first, independent of the loops above.                  *)
(***************************************************************************)
CeilDiv(a, b) == (a + b - 1) \div b

\* bit k (from 0) of the byte string d
ByteBit(d, k) == (d[k \div 8 + 1] \div Pow2(7 - (k % 8))) % 2

\* the 5-bit value of an alphabet symbol, by its position in ALPHABET
DigitValue(c) == CHOOSE v \in 0..31 : ALPHABET[v + 1] = c

InAlphabet(c) == \E i \in 1..32 : ALPHABET[i] = c

AllInAlphabet(s) == \A i \in 1..Len(s) : InAlphabet(s[i])

\* bit k (from 0) of the concatenated 5-bit values of the symbol string s
SymBit(s, k) == (DigitValue(s[k \div 5 + 1]) \div Pow2(4 - (k % 5))) % 2

\* the value of the w bits from position `first` of the stream B cut after n bits
GroupValue(B(_), first, w, n) ==
    LET f[i \in 0..w] ==
            IF i = 0 THEN 0
            ELSE 2 * f[i - 1] + (IF first + i - 1 < n THEN B(first + i - 1) ELSE 0)
    IN  f[w]

\* the first n bits of the byte string d, zero-padded to a byte boundary
TruncBytes(d, n) ==
    [j \in 1..CeilDiv(n, 8) |-> GroupValue(LAMBDA k : ByteBit(d, k), 8 * (j - 1), 8, n)]

\* the symbols of the first n bits of d, zero-padded to a symbol boundary
RefEncode(d, n) ==
    [i \in 1..CeilDiv(n, 5) |->
        ALPHABET[GroupValue(LAMBDA k : ByteBit(d, k), 5 * (i - 1), 5, n) + 1]]

\* the bytes of the first n bits of the symbol string s, zero-padded
RefDecode(s, n) ==
    [j \in 1..CeilDiv(n, 8) |-> GroupValue(LAMBDA k : SymBit(s, k), 8 * (j - 1), 8, n)]

\* d with every bit from position n on set to v (0 or 1)
FillFrom(d, n, v) ==
    [j \in 1..Len(d) |->
        GroupValue(LAMBDA k : IF k < n THEN ByteBit(d, k) ELSE v, 8 * (j - 1), 8, 8 * Len(d))]

Returned(f) == pc = "done" /\ fn = f

C2_BitRoundTrip ==
    (Returned("encode") /\ bits <= 8 * Len(arg)) =>
        /\ ret.tag = "Ok"
        /\ decode(ret.val, bits).tag = "Ok"
        /\ Len(decode(ret.val, bits).val) = CeilDiv(bits, 8)
        /\ decode(ret.val, bits).val = TruncBytes(arg, bits)

\* 11 bits of ff ff: the second byte comes back with its low five bits cleared
C2_Witness ==
    /\ Returned("encode")
    /\ arg = <<255, 255>>
    /\ bits = 11
    /\ decode(ret.val, bits).val = <<255, 224>>

(***************************************************************************)
(* C3: encode is the reference bit grouping.  Symbol i of encode(d, bits)  *)
(* is ALPHABET[v_i], v_i the five bits 5i..5i+4 of d with every bit from   *)
(* position `bits` on read as 0; so the bits of d from `bits` on, and      *)
(* further bytes, do not change the result.                                *)
(***************************************************************************)
C3_EncodeReference ==
    (Returned("encode") /\ bits <= 8 * Len(arg)) =>
        /\ ret.tag = "Ok"
        /\ ret.val = RefEncode(arg, bits)
        /\ encode(FillFrom(arg, bits, 1) \o <<255>>, bits) = ret
        /\ encode(FillFrom(arg, bits, 0), bits) = ret

\* encode(&[0xd4, 0x7a, 0x04, 0xff], 24) == "4t7ye"
C3_Witness ==
    /\ Returned("encode")
    /\ arg = <<212, 122, 4, 255>>
    /\ bits = 24
    /\ ret.val = <<52, 116, 55, 121, 101>>
    /\ encode(<<212, 122, 4>>, 24) = ret

(***************************************************************************)
(* C4: decode is the reference bit regrouping.  For a string s of alphabet *)
(* symbols and bits <= 5 * len(s), decode(s, bits) is Ok with bytes whose  *)
(* bit k is bit k of the concatenated 5-bit values for k < bits and 0      *)
(* from there on; a further symbol after s does not change the result.     *)
(***************************************************************************)
C4_DecodeReference ==
    (Returned("decode") /\ AllInAlphabet(arg) /\ bits <= 5 * Len(arg)) =>
        /\ ret.tag = "Ok"
        /\ ret.val = RefDecode(arg, bits)
        /\ decode(arg \o <<57>>, bits) = ret

\* decode(b"4t7ye9", 25) == [0xd4, 0x7a, 0x04, 0x00]
C4_Witness ==
    /\ Returned("decode")
    /\ arg = <<52, 116, 55, 121, 101, 57>>
    /\ bits = 25
    /\ ret = Ok(<<212, 122, 4, 0>>)

(***************************************************************************)
(* C5: lengths.  Within the precondition encode returns Ok with exactly    *)
(* ceil(bits/5) symbols, and decode never fails its length assertion and,  *)
(* when it returns Ok, returns exactly ceil(bits/8) bytes.                 *)
(***************************************************************************)
C5_Lengths ==
    /\ (pc = "done" /\ fn \in {"encode", "encode_full_bytes"} /\ bits <= 8 * Len(arg)) =>
            ret.tag = "Ok" /\ Len(ret.val) = CeilDiv(bits, 5)
    /\ (pc = "done" /\ fn \in {"decode", "decode_full_bytes"} /\ bits <= 5 * Len(arg)) =>
            /\ ret.tag \in {"Ok", "Err"}
            /\ ret.tag = "Ok" => Len(ret.val) = CeilDiv(bits, 8)

\* 13 bits of a three-symbol string: two bytes
C5_Witness ==
    /\ Returned("decode")
    /\ Len(arg) = 3
    /\ bits = 13
    /\ ret.tag = "Ok"
    /\ Len(ret.val) = 2

(***************************************************************************)
(* C6: validation.  decode_full_bytes(s) returns Ok exactly when           *)
(* validate(s) is true, for strings with non-digits at any position.       *)
(***************************************************************************)
C6_ValidateIffDecodes ==
    /\ Returned("decode_full_bytes") =>
            /\ ret.tag \in {"Ok", "Err"}
            /\ ret.tag = "Ok" <=> validate(arg)
    /\ Returned("validate") => (ret.val <=> decode_full_bytes(arg).tag = "Ok")

\* a lone non-digit: the bit length is 0 and the byte is still looked up
C6_Witness ==
    /\ Returned("decode_full_bytes")
    /\ arg = <<65>>
    /\ bits = 0
    /\ ret.tag = "Err"

(***************************************************************************)
(* C7: the too-short precondition.  encode panics exactly when             *)
(* bits > 8 * len(d) and decode exactly when bits > 5 * len(s), whatever   *)
(* the input holds: a too-short string with a non-digit panics and does    *)
(* not return the invalid-digit error.                                     *)
(***************************************************************************)
C7_TooShort ==
    /\ Returned("encode") => (ret.tag = "Panic" <=> bits > 8 * Len(arg))
    /\ Returned("decode") => (ret.tag = "Panic" <=> bits > 5 * Len(arg))

\* decode(b"A", 6): too short, and the non-digit is never reported
C7_Witness ==
    /\ Returned("decode")
    /\ arg = <<65>>
    /\ bits = 6
    /\ ret.tag = "Panic"

(***************************************************************************)
(* C8: the alphabet and the digit table.  The 32 symbols are pairwise      *)
(* distinct; value_of_digit of an alphabet symbol c is Ok(v) with          *)
(* 0 <= v <= 31 and ALPHABET[v] = c; value_of_digit of each other byte     *)
(* value is the error.                                                     *)
(***************************************************************************)
C8_DigitTable ==
    /\ Len(ALPHABET) = 32
    /\ Len(CONVERSION_TABLE) = 256
    /\ \A i, j \in 1..32 : i # j => ALPHABET[i] # ALPHABET[j]
    /\ Returned("value_of_digit") =>
            IF InAlphabet(arg[1])
            THEN /\ ret.tag = "Ok"
                 /\ ret.val \in 0..31
                 /\ ALPHABET[ret.val + 1] = arg[1]
            ELSE ret.tag = "Err"

\* '9' is the last symbol of the alphabet
C8_Witness ==
    /\ Returned("value_of_digit")
    /\ arg = <<57>>
    /\ ret = Ok(31)

C10_SymbolRoundTrip ==
    (Returned("decode") /\ AllInAlphabet(arg) /\ bits = 5 * Len(arg)) =>
        /\ ret.tag = "Ok"
        /\ encode(ret.val, bits) = Ok(arg)

\* three symbols, 15 bits, two bytes and back
C10_Witness ==
    /\ Returned("decode")
    /\ arg = <<121, 57, 111>>
    /\ bits = 15
    /\ encode(ret.val, bits) = Ok(arg)

(***************************************************************************)
(* C11: whitespace tolerance, as the tests of tests/fuzz.rs assert it.     *)
(* For every string made only of alphabet symbols and of space, tab and    *)
(* newline, validate returns true and decode_full_bytes returns Ok.        *)
(* The digit table has no entry for whitespace, so this fails.             *)
(***************************************************************************)
\* b" \t\n"
WHITESPACE == {32, 9, 10}

OnlyDigitsAndWhitespace(s) ==
    \A i \in 1..Len(s) : InAlphabet(s[i]) \/ s[i] \in WHITESPACE

C11_WhitespaceTolerated ==
    /\ (Returned("validate") /\ OnlyDigitsAndWhitespace(arg)) =>
            ret.val = TRUE /\ validate_str(arg)
    /\ (Returned("decode_full_bytes") /\ OnlyDigitsAndWhitespace(arg)) =>
            ret.tag = "Ok"

(***************************************************************************)
(* Which symbols decode looks up.                                          *)
(***************************************************************************)
Min(a, b) == IF a <= b THEN a ELSE b
Max(a, b) == IF a >= b THEN a ELSE b

\* the number of symbols the iterator of a returned decode call has yielded
Consumed == Len(arg) - Len(loc.rest)

\* the number of symbols decode looks up in a string of `len` symbols: those
\* that carry the n bits, and one past the last whole byte
LookedUp(n, len) == Min(len, Max(CeilDiv(n, 5), CeilDiv(8 * (n \div 8), 5) + 1))

PrefixInAlphabet(s, k) == \A i \in 1..Min(k, Len(s)) : InAlphabet(s[i])

DecodeWithin == Returned("decode") /\ bits <= 5 * Len(arg)

(***************************************************************************)
(* C12 as stated: decode stops after the first ceil(bits/5) symbols, and   *)
(* returns Ok whenever those are in the alphabet, whatever follows them.   *)
(***************************************************************************)
C12_StopsAfterNeededSymbols ==
    (DecodeWithin /\ PrefixInAlphabet(arg, CeilDiv(bits, 5))) =>
        /\ ret.tag = "Ok"
        /\ Consumed = CeilDiv(bits, 5)

(***************************************************************************)
(* C12 amended: the break test is made only after a symbol has been looked *)
(* up, so decode stops after the first K symbols,                          *)
(* K = min(len(s), max(ceil(bits/5), ceil(8*floor(bits/8)/5) + 1)).        *)
(* Whenever those K symbols are in the alphabet it returns Ok, and what    *)
(* it returns is what it returns for the first K symbols alone: every      *)
(* later symbol is ignored.                                                *)
(***************************************************************************)
C12_EarlyStop ==
    (DecodeWithin /\ PrefixInAlphabet(arg, LookedUp(bits, Len(arg)))) =>
        /\ ret.tag = "Ok"
        /\ Consumed = LookedUp(bits, Len(arg))
        /\ loc.rest = SubSeq(arg, LookedUp(bits, Len(arg)) + 1, Len(arg))
        /\ ret = decode(SubSeq(arg, 1, LookedUp(bits, Len(arg))), bits)

\* decode(b"yyyA", 8): two symbols carry the byte, the third is looked up too,
\* the non-digit after it is never seen
C12_Witness ==
    /\ Returned("decode")
    /\ arg = <<121, 121, 121, 65>>
    /\ bits = 8
    /\ Consumed = 3
    /\ loc.rest = <<65>>
    /\ ret = Ok(<<0>>)

(***************************************************************************)
(* C13: the symbols decode validates.  For bits <= 5 * len(s), decode      *)
(* returns the invalid-digit error exactly when a non-alphabet byte is     *)
(* among the first K symbols, K as above; no symbol after the first K is   *)
(* looked up; with bits = 5 * len(s) every symbol is validated.            *)
(***************************************************************************)
C13_ValidatedSymbols ==
    DecodeWithin =>
        /\ ret.tag \in {"Ok", "Err"}
        /\ ret.tag = "Err" <=> ~PrefixInAlphabet(arg, LookedUp(bits, Len(arg)))
        /\ Consumed <= LookedUp(bits, Len(arg))
        /\ ret.tag = "Err" =>
                /\ ~InAlphabet(arg[Consumed])
                /\ PrefixInAlphabet(arg, Consumed - 1)
        /\ bits = 5 * Len(arg) => LookedUp(bits, Len(arg)) = Len(arg)

\* decode(b"yyA", 8): the third symbol carries no wanted bit and is still an error
C13_Witness ==
    /\ Returned("decode")
    /\ arg = <<121, 121, 65>>
    /\ bits = 8
    /\ LookedUp(bits, Len(arg)) = 3
    /\ ret.tag = "Err"

(***************************************************************************)
(* C14: the fixed-width arithmetic never wraps.  Within the preconditions: *)
(* in decode buffer_size stays <= 12 (also between `+= 5` and the emit),   *)
(* `bits_remaining -= 8` runs only with bits_remaining >= 8, and after the *)
(* loop bits_remaining < 8 and buffer_size >= bits_remaining; in encode    *)
(* the shift amount is in 0..15, the window holds at least                 *)
(* min(5, bits_remaining) unconsumed bits after the refill (also once the  *)
(* input is exhausted), and each iteration takes at least one bit and at   *)
(* most bits_remaining off bits_remaining, so the loop ends.  No call      *)
(* ends in an overflow or assertion panic.                                 *)
(***************************************************************************)
DecodeRunning ==
    \/ pc = "decode_loop"
    \/ pc = "done" /\ fn \in {"decode", "decode_full_bytes"} /\ bits <= 5 * Len(arg)

C14_DecodeNoWrap ==
    /\ DecodeRunning => ~loc.fault /\ loc.buffer_size <= 12
    /\ (pc = "decode_loop" /\ DecodeLooping(loc) /\ InAlphabet(Head(loc.rest))) =>
            LET size == loc.buffer_size + 5
                stop == loc.bits_remaining < 8 /\ size >= loc.bits_remaining
            IN  /\ size <= 12
                /\ (~stop /\ size >= 8) => loc.bits_remaining >= 8
    /\ (pc = "decode_loop" /\ ~DecodeLooping(loc) /\ loc.ctl # "err") =>
            /\ loc.bits_remaining < 8
            /\ loc.buffer_size >= loc.bits_remaining
            /\ ~DecodeTail(loc).fault

C14_EncodeNoWrap ==
    /\ pc = "encode_loop" => ~loc.fault
    /\ (pc = "encode_loop" /\ EncodeLooping(loc)) =>
            LET s1 == EncodeRefill(loc)
                unused_bits == UnusedBits(s1.bits_remaining)
                shift == EncodeShift(unused_bits, s1.bit_offset)
            IN  /\ shift \in 0..15
                /\ 16 - s1.bit_offset >= Min(5, s1.bits_remaining)
                /\ 5 - unused_bits \in 1..s1.bits_remaining
                /\ s1.bit_offset + 5 < U8
                /\ EncodeBody(loc).bits_remaining < loc.bits_remaining
                /\ ~EncodeBody(loc).fault

C14_NoWrap ==
    /\ C14_DecodeNoWrap
    /\ C14_EncodeNoWrap
    /\ (pc = "done" /\ ret.tag = "Panic") =>
            \/ fn \in {"encode", "encode_full_bytes"} /\ bits > 8 * Len(arg)
            \/ fn \in {"decode", "decode_full_bytes"} /\ bits > 5 * Len(arg)

\* encode(&[d], 8), second iteration: the input is exhausted, nothing is
\* refilled, three bits are left in the window and the shift amount is 0
C14_Witness ==
    /\ pc = "encode_loop"
    /\ EncodeLooping(loc)
    /\ Len(arg) = 1
    /\ loc.remaining = <<>>
    /\ loc.bit_offset = 13
    /\ loc.bits_remaining = 3
    /\ EncodeShift(UnusedBits(3), EncodeRefill(loc).bit_offset) = 0

=============================================================================
